---- MODULE Spec2Model ----
(***************************************************************************)
(* dedup-archive.py: parse a BSD ar archive, drop the first occurrence of  *)
(* every duplicated ggml object, and repack the rest with ar rcs.          *)
(*                                                                         *)
(* A byte is a one-character string; NUL stands for 0x00, GRAVE for 0x60   *)
(* and HIGH for a byte >= 0x80.  A str character is a one-character string *)
(* too; REPL is U+FFFD, what decode with errors=replace puts for an        *)
(* undecodable byte.                                                       *)
(***************************************************************************)
EXTENDS Integers, Sequences, FiniteSets, TLC

VARIABLES
    entries,       \* ghost: the logical members the input archive was built from
    damage,        \* ghost: how the input file was damaged ("none" if it was not)
    file,          \* bytes of the file at input_path
    out0,          \* the file at output_path when the run started
    output,        \* the file at output_path now
    run,           \* 1: first invocation, 2: invocation on the first one's output
    pc,            \* position of main()
    exit_status,   \* process exit status once pc = "exited"
    parsed,        \* what parse_ar did: status, headers processed, bytes of the last header read
    members,       \* main: members
    names,         \* main: names
    actual_dups,   \* main: actual_dups
    skip_indices,  \* main: skip_indices (0-based, as in the code)
    tmpdir,        \* the TemporaryDirectory: whether it exists, and its files (name -> data)
    extracted,     \* main: extracted (the staged file names, in order)
    idx,           \* main: the staging loop's i (0-based)
    produced,      \* history: the cp or the ar call of this run succeeded
    ar_called      \* history: the ar call of this run was made

vars == <<entries, damage, file, out0, output, run, pc, exit_status, parsed, members,
          names, actual_dups, skip_indices, tmpdir, extracted, idx, produced, ar_called>>

-----------------------------------------------------------------------------
(* Bounds of the model *)

\* longest member list of an undamaged input (Spec)
MaxMembers == 4

\* longest member list of an input of mixed encodings, damaged or not (SpecReader)
MaxEntries == 2

-----------------------------------------------------------------------------
(* Bytes, characters and the names used as inputs *)

NUL == "NUL"
GRAVE == "GRAVE"
HIGH == "0xC3"
REPL == "U+FFFD"

Digits == <<"0", "1", "2", "3", "4", "5", "6", "7", "8", "9">>

Whitespace == {" ", "\n"}

Min(a, b) == IF a < b THEN a ELSE b

ggml_c_o == <<"g", "g", "m", "l", ".", "c", ".", "o">>
ggml_alloc_c_o == <<"g", "g", "m", "l", "-", "a", "l", "l", "o", "c", ".", "c", ".", "o">>
ggml_backend_c_o == <<"g", "g", "m", "l", "-", "b", "a", "c", "k", "e", "n", "d", ".", "c", ".", "o">>
ggml_quants_c_o == <<"g", "g", "m", "l", "-", "q", "u", "a", "n", "t", "s", ".", "c", ".", "o">>
a_o == <<"a", ".", "o">>
hi_o == <<HIGH, ".", "o">>
SYMDEF == <<"_", "_", ".", "S", "Y", "M", "D", "E", "F">>

duplicate_candidates == {ggml_c_o, ggml_alloc_c_o, ggml_backend_c_o, ggml_quants_c_o}

-----------------------------------------------------------------------------
(* Python's str/bytes operations, as parse_ar uses them *)

\* the position a slice bound n denotes in a sequence of length len
SliceAt(n, len) == IF n < 0 THEN (IF len + n < 0 THEN 0 ELSE len + n) ELSE Min(n, len)

\* s[n:]
Drop(s, n) == SubSeq(s, SliceAt(n, Len(s)) + 1, Len(s))

\* s[:n]
Take(s, n) == SubSeq(s, 1, SliceAt(n, Len(s)))

\* s.startswith(p)
StartsWith(s, p) == Len(s) >= Len(p) /\ SubSeq(s, 1, Len(p)) = p

\* s.rstrip(chars)
RECURSIVE RStrip(_, _)
RStrip(s, chars) ==
    IF s # <<>> /\ s[Len(s)] \in chars THEN RStrip(SubSeq(s, 1, Len(s) - 1), chars) ELSE s

\* s.lstrip(chars)
RECURSIVE LStrip(_, _)
LStrip(s, chars) ==
    IF s # <<>> /\ s[1] \in chars THEN LStrip(Tail(s), chars) ELSE s

\* s.strip()
Strip(s) == LStrip(RStrip(s, Whitespace), Whitespace)

\* bytes.decode("ascii") raises UnicodeDecodeError on a byte >= 0x80
AsciiOk(b) == \A k \in 1..Len(b) : b[k] # HIGH

\* bytes.decode("ascii", errors="replace")
DecodeReplace(b) == [k \in 1..Len(b) |-> IF b[k] = HIGH THEN REPL ELSE b[k]]

DigitVal(c) == CHOOSE d \in 0..9 : Digits[d + 1] = c

IsDigits(s) == s # <<>> /\ \A k \in 1..Len(s) : \E d \in 1..10 : Digits[d] = s[k]

RECURSIVE DigitsVal(_)
DigitsVal(s) ==
    IF s = <<>> THEN 0 ELSE 10 * DigitsVal(SubSeq(s, 1, Len(s) - 1)) + DigitVal(s[Len(s)])

\* int(s): surrounding whitespace and one sign are accepted, anything else is a ValueError
IntOk(s) ==
    LET t == Strip(s)
    IN  IF t # <<>> /\ t[1] \in {"-", "+"} THEN IsDigits(Tail(t)) ELSE IsDigits(t)

IntVal(s) ==
    LET t == Strip(s)
    IN  IF t[1] = "-" THEN 0 - DigitsVal(Tail(t))
        ELSE IF t[1] = "+" THEN DigitsVal(Tail(t))
        ELSE DigitsVal(t)

\* f.read(n) at 0-based position pos: at most n bytes, all that is left when n < 0
Read(f, pos, n) ==
    IF n < 0 THEN Drop(f, pos) ELSE Drop(Take(f, pos + n), pos)

-----------------------------------------------------------------------------
(* parse_ar *)

Magic == <<"!", "<", "a", "r", "c", "h", ">", "\n">>

MagicLen == 8
HeaderLen == 60
NameFieldEnd == 16
SizeFieldStart == 48
SizeFieldEnd == 58

ExtMarker == <<"#", "1", "/">>

\* the member-name test that skips the symbol table and string table entries
IsSpecial(member_name) ==
    \/ StartsWith(member_name, SYMDEF)
    \/ member_name \in {<<"/">>, <<"/", "/">>, <<>>}

\* One pass of the while loop from 0-based position pos.  hdrs records, for every
\* 60-byte header processed, its declared size, the bytes f.read(size) returned
\* and what was yielded.  The result tells how the generator ended:
\*   "eof"   - a header read returned fewer than 60 bytes (their number in tail)
\*   "error" - an exception escaped (which one in err)
RECURSIVE ParseLoop(_, _, _, _)
ParseLoop(f, pos, yielded, hdrs) ==
    LET aligned == IF pos % 2 = 1 THEN pos + Len(Read(f, pos, 1)) ELSE pos
        header == Read(f, aligned, HeaderLen)
        raw_name == Take(header, NameFieldEnd)
        raw_size == Drop(Take(header, SizeFieldEnd), SizeFieldStart)
        name_field == Strip(raw_name)
        size == IntVal(raw_size)
        data == Read(f, aligned + HeaderLen, size)
        after == aligned + HeaderLen + Len(data)
        ext == StartsWith(name_field, ExtMarker)
        name_len == IntVal(Drop(name_field, 3))
        member_name ==
            IF ext THEN DecodeReplace(RStrip(Take(data, name_len), {NUL}))
            ELSE RStrip(name_field, {"/"})
        object_data == IF ext THEN Drop(data, name_len) ELSE data
        skip == IsSpecial(member_name)
        h == [size |-> size, got |-> Len(data), ext |-> ext,
              name_len |-> IF ext THEN name_len ELSE 0,
              content |-> Len(object_data), yielded |-> ~skip]
        fail(e) == [status |-> "error", err |-> e, members |-> yielded,
                    hdrs |-> hdrs, tail |-> 0]
    IN  IF Len(header) < HeaderLen
        THEN [status |-> "eof", err |-> "", members |-> yielded, hdrs |-> hdrs,
              tail |-> Len(header)]
        ELSE IF ~AsciiOk(raw_name) \/ ~AsciiOk(raw_size) THEN fail("UnicodeDecodeError")
        ELSE IF ~IntOk(raw_size) THEN fail("ValueError")
        ELSE IF ext /\ ~IntOk(Drop(name_field, 3)) THEN fail("ValueError")
        ELSE ParseLoop(f, after,
                       IF skip THEN yielded
                       ELSE Append(yielded, [name |-> member_name, data |-> object_data]),
                       Append(hdrs, h))

\* list(parse_ar(path))
ParseAr(f) ==
    IF Read(f, 0, MagicLen) # Magic
    THEN [status |-> "error", err |-> "AssertionError", members |-> <<>>,
          hdrs |-> <<>>, tail |-> 0]
    ELSE ParseLoop(f, MagicLen, <<>>, <<>>)

-----------------------------------------------------------------------------
(* The ar container, as BSD ar writes it: what the input files are made of *)
(* and what ar rcs puts at output_path.                                  *)

RECURSIVE Dec(_)
Dec(n) == IF n < 10 THEN <<Digits[n + 1]>> ELSE Dec(n \div 10) \o <<Digits[(n % 10) + 1]>>

Pad(s, n) == s \o [k \in 1..(n - Len(s)) |-> " "]

\* a 60-byte header: name(16) mtime(12) uid(6) gid(6) mode(8) size(10) end(2)
Header(name_field, size) ==
    Pad(name_field, 16) \o Pad(<<"0">>, 12) \o Pad(<<"0">>, 6) \o Pad(<<"0">>, 6)
        \o Pad(<<"6", "4", "4">>, 8) \o Pad(Dec(size), 10) \o <<GRAVE, "\n">>

\* BSD ar rounds the length of an extended name up to a multiple of 4 with NULs
ExtNameLen(name) == Len(name) + ((4 - (Len(name) % 4)) % 4)

\* the payload of a member: for an extended name, the name padded with NULs first
Payload(e) ==
    IF e.enc = "ext"
    THEN e.name \o [k \in 1..(ExtNameLen(e.name) - Len(e.name)) |-> NUL] \o e.content
    ELSE e.content

\* one member: header, payload, and a newline when the payload length is odd.
\* enc: bsd (short name), gnu (short name ended by a slash), ext (#1/N name)
EncodeMember(e) ==
    LET name_field ==
            IF e.enc = "ext" THEN ExtMarker \o Dec(ExtNameLen(e.name))
            ELSE IF e.enc = "gnu" THEN e.name \o <<"/">>
            ELSE e.name
    IN  Header(name_field, Len(Payload(e))) \o Payload(e)
            \o (IF Len(Payload(e)) % 2 = 1 THEN <<"\n">> ELSE <<>>)

RECURSIVE Archive(_)
Archive(es) ==
    IF es = <<>> THEN Magic
    ELSE Archive(SubSeq(es, 1, Len(es) - 1)) \o EncodeMember(es[Len(es)])

\* ar r: a member of the same name is replaced in place, a new one is appended
ArInsert(ms, m) ==
    IF \E k \in 1..Len(ms) : ms[k].name = m.name
    THEN [k \in 1..Len(ms) |-> IF ms[k].name = m.name THEN m ELSE ms[k]]
    ELSE Append(ms, m)

\* the members ar r makes of the files named on its command line, in order:
\* each is stored under the last component of its path
RECURSIVE ArMembers(_, _)
ArMembers(paths, files) ==
    IF paths = <<>> THEN <<>>
    ELSE LET p == paths[Len(paths)]
         IN  ArInsert(ArMembers(SubSeq(paths, 1, Len(paths) - 1), files),
                      [name |-> p, enc |-> IF Len(p) > 16 THEN "ext" ELSE "bsd",
                       content |-> files[p]])

\* a writer that stores every staged file under the member's original name
\* (the staging prefix removed) and appends without replacing
ArWriteOriginalNames(paths, files) ==
    Archive(<<[name |-> SYMDEF, enc |-> "bsd", content |-> <<"s", "y">>]>>
            \o [k \in 1..Len(paths) |->
                  [name |-> Drop(paths[k], 6),
                   enc |-> IF Len(paths[k]) - 6 > 16 THEN "ext" ELSE "bsd",
                   content |-> files[paths[k]]]])

\* subprocess.run(["ar", "rcs", output_path] + extracted): the bytes of the archive
\* ar creates, its symbol table first
ArWrite(paths, files) ==
    Archive(<<[name |-> SYMDEF, enc |-> "bsd", content |-> <<"s", "y">>]>>
            \o ArMembers(paths, files))

-----------------------------------------------------------------------------
(* main: the dedup policy *)

\* Counter(names)[n]
Count(n, ns) == Cardinality({k \in 1..Len(ns) : ns[k] = n})

\* {n for n in duplicate_candidates if counts[n] > 1}
ActualDups(ns) == {n \in duplicate_candidates : Count(n, ns) > 1}

\* the marking loop with the later occurrence marked instead of the first
RECURSIVE MarkLoopLater(_, _, _, _, _)
MarkLoopLater(ns, dups, i, seen, skip) ==
    IF i >= Len(ns) THEN skip
    ELSE LET name == ns[i + 1]
         IN  IF name \notin dups THEN MarkLoopLater(ns, dups, i + 1, seen, skip)
             ELSE IF name \notin DOMAIN seen
             THEN MarkLoopLater(ns, dups, i + 1, (name :> i) @@ seen, skip)
             ELSE MarkLoopLater(ns, dups, i + 1, seen, skip \cup {i})

\* for i, name in enumerate(names): ... (i is 0-based; seen maps a name to the
\* index of its first occurrence)
RECURSIVE MarkLoop(_, _, _, _, _)
MarkLoop(ns, dups, i, seen, skip) ==
    IF i >= Len(ns) THEN skip
    ELSE LET name == ns[i + 1]
         IN  IF name \notin dups THEN MarkLoop(ns, dups, i + 1, seen, skip)
             ELSE IF name \notin DOMAIN seen
             THEN MarkLoop(ns, dups, i + 1, (name :> i) @@ seen, skip)
             ELSE MarkLoop(ns, dups, i + 1, seen, skip \cup {seen[name]})

-----------------------------------------------------------------------------
(* main: staging *)

\* f"{i:05d}"
Fmt05d(i) == LET d == Dec(i) IN [k \in 1..(5 - Len(d)) |-> "0"] \o d

\* a staged file named by the member name alone
StagedNameNoIndex(i, name) == name

\* out_name = f"{i:05d}_{name}"
StagedName(i, name) == Fmt05d(i) \o <<"_">> \o name

\* a temporary directory that is removed only when its block ends normally
TemporaryDirectoryExitOnSuccess(t, raised) ==
    IF raised THEN t ELSE [exists |-> FALSE, files |-> <<>>]

\* TemporaryDirectory.__exit__: the directory and everything in it is removed,
\* whether the with block ended normally or by an exception
TemporaryDirectoryExit(t, raised) == [exists |-> FALSE, files |-> <<>>]

-----------------------------------------------------------------------------
(* The files a run starts from *)

Absent == [exists |-> FALSE, bytes |-> <<>>]

\* a file left at output_path by an earlier build
Old == [exists |-> TRUE, bytes |-> <<"o", "l", "d">>]

NoParse == [status |-> "", err |-> "", hdrs |-> <<>>, tail |-> 0]

NoTmpdir == [exists |-> FALSE, files |-> <<>>]

\* undamaged archives of short-named members; member k holds the one byte Digits[k]
PolicyNames == {ggml_c_o, ggml_alloc_c_o, ggml_backend_c_o, a_o}

PolicyInputs ==
    UNION {{[k \in 1..n |-> [name |-> f[k], enc |-> "bsd", content |-> <<Digits[k]>>]] :
              f \in [1..n -> PolicyNames]} : n \in 0..MaxMembers}

\* archives of every name encoding, whose payloads are of even and odd length
ReaderEntry ==
    [name : {ggml_alloc_c_o, a_o, hi_o, SYMDEF}, enc : {"bsd", "gnu", "ext"},
     content : {<<>>, <<"x">>}]

ReaderInputs == UNION {[1..n -> ReaderEntry] : n \in 0..MaxEntries}

\* 0-based offset of the header of the last member of Archive(es)
LastHeaderAt(es) == Len(Archive(SubSeq(es, 1, Len(es) - 1)))

Damages(es) ==
    {"none", "magic"}
        \cup (IF es # <<>> THEN {"header"} ELSE {})
        \cup (IF es # <<>> /\ Payload(es[Len(es)]) # <<>> THEN {"payload"} ELSE {})

\* magic: the first byte is wrong; header: the file ends 30 bytes into the last
\* header; payload: the file ends one byte before the end of the last payload
Damaged(es, d) ==
    IF d = "magic" THEN <<"?">> \o Tail(Archive(es))
    ELSE IF d = "header" THEN Take(Archive(es), LastHeaderAt(es) + 30)
    ELSE IF d = "payload"
    THEN Take(Archive(es), LastHeaderAt(es) + HeaderLen + Len(Payload(es[Len(es)])) - 1)
    ELSE Archive(es)

Start(es, d, o) ==
    /\ entries = es
    /\ damage = d
    /\ file = Damaged(es, d)
    /\ out0 = o
    /\ output = o
    /\ run = 1
    /\ pc = "start"
    /\ exit_status = 0
    /\ parsed = NoParse
    /\ members = <<>>
    /\ names = <<>>
    /\ actual_dups = {}
    /\ skip_indices = {}
    /\ tmpdir = NoTmpdir
    /\ extracted = <<>>
    /\ idx = 0
    /\ produced = FALSE
    /\ ar_called = FALSE

Init == \E es \in PolicyInputs, o \in {Absent, Old} : Start(es, "none", o)

InitReader ==
    \E es \in ReaderInputs, o \in {Absent, Old} : \E d \in Damages(es) : Start(es, d, o)

-----------------------------------------------------------------------------
(* main *)

\* line 59: members = list(parse_ar(input_path)); an exception ends the process
Parse ==
    /\ pc = "start"
    /\ LET r == ParseAr(file)
       IN  /\ parsed' = [status |-> r.status, err |-> r.err, hdrs |-> r.hdrs,
                         tail |-> r.tail]
           /\ members' = IF r.status = "error" THEN <<>> ELSE r.members
           /\ pc' = IF r.status = "error" THEN "exited" ELSE "parsed"
           /\ exit_status' = IF r.status = "error" THEN 1 ELSE 0
    /\ UNCHANGED <<entries, damage, file, out0, output, run, names, actual_dups,
                   skip_indices, tmpdir, extracted, idx, produced, ar_called>>

\* lines 60-70: names, counts, actual_dups, and the choice of the path
CountDups ==
    /\ pc = "parsed"
    /\ names' = [k \in 1..Len(members) |-> members[k].name]
    /\ actual_dups' = ActualDups(names')
    /\ pc' = IF actual_dups' = {} THEN "copy" ELSE "mark"
    /\ UNCHANGED <<entries, damage, file, out0, output, run, exit_status, parsed,
                   members, skip_indices, tmpdir, extracted, idx, produced, ar_called>>

\* lines 71-73: subprocess.run(["cp", input_path, output_path]) and return; the
\* exit status of cp is not looked at.  A cp that fails leaves output_path as it was
PassthroughCopy ==
    /\ pc = "copy"
    /\ \E ok \in BOOLEAN :
          /\ output' = IF ok THEN [exists |-> TRUE, bytes |-> file] ELSE output
          /\ produced' = ok
    /\ pc' = "exited"
    /\ exit_status' = 0
    /\ UNCHANGED <<entries, damage, file, out0, run, parsed, members, names,
                   actual_dups, skip_indices, tmpdir, extracted, idx, ar_called>>

\* lines 75-87: the marking loop
MarkFirst ==
    /\ pc = "mark"
    /\ skip_indices' = MarkLoop(names, actual_dups, 0, <<>>, {})
    /\ pc' = "mktemp"
    /\ UNCHANGED <<entries, damage, file, out0, output, run, exit_status, parsed,
                   members, names, actual_dups, tmpdir, extracted, idx, produced,
                   ar_called>>

\* lines 90-91: the temporary directory is created; mkdtemp may raise OSError,
\* which ends the process
EnterTmpdir ==
    /\ pc = "mktemp"
    /\ \E ok \in BOOLEAN :
          /\ tmpdir' = IF ok THEN [exists |-> TRUE, files |-> <<>>] ELSE tmpdir
          /\ pc' = IF ok THEN "stage" ELSE "exited"
          /\ exit_status' = IF ok THEN exit_status ELSE 1
    /\ extracted' = <<>>
    /\ idx' = 0
    /\ UNCHANGED <<entries, damage, file, out0, output, run, parsed, members, names,
                   actual_dups, skip_indices, produced, ar_called>>

\* lines 92-100: one iteration of the staging loop.  Writing the file may raise
\* OSError, which leaves the with block and ends the process
StageMember ==
    /\ pc = "stage"
    /\ idx < Len(members)
    /\ \E ok \in BOOLEAN :
          LET out_name == StagedName(idx, members[idx + 1].name)
          IN  IF idx \in skip_indices
              THEN /\ idx' = idx + 1
                   /\ UNCHANGED <<tmpdir, extracted, pc, exit_status>>
              ELSE IF ok
              THEN /\ tmpdir' = [tmpdir EXCEPT
                                   !.files = (out_name :> members[idx + 1].data) @@ @]
                   /\ extracted' = Append(extracted, out_name)
                   /\ idx' = idx + 1
                   /\ UNCHANGED <<pc, exit_status>>
              ELSE /\ tmpdir' = TemporaryDirectoryExit(tmpdir, TRUE)
                   /\ pc' = "exited"
                   /\ exit_status' = 1
                   /\ UNCHANGED <<extracted, idx>>
    /\ UNCHANGED <<entries, damage, file, out0, output, run, parsed, members, names,
                   actual_dups, skip_indices, produced, ar_called>>

\* lines 102-105: the loop is over; an existing output_path is removed.
\* os.remove may raise OSError, which leaves the with block and ends the process
RemoveOutput ==
    /\ pc = "stage"
    /\ idx = Len(members)
    /\ \E ok \in BOOLEAN :
          IF output.exists /\ ~ok
          THEN /\ tmpdir' = TemporaryDirectoryExit(tmpdir, TRUE)
               /\ pc' = "exited"
               /\ exit_status' = 1
               /\ UNCHANGED output
          ELSE /\ output' = IF output.exists THEN Absent ELSE output
               /\ pc' = "rebuild"
               /\ UNCHANGED <<tmpdir, exit_status>>
    /\ UNCHANGED <<entries, damage, file, out0, run, parsed, members, names,
                   actual_dups, skip_indices, extracted, idx, produced, ar_called>>

\* lines 107-109: ar rcs with check=True, then the end of the with block.  A
\* failing ar raises CalledProcessError and writes nothing
Rebuild ==
    /\ pc = "rebuild"
    /\ \E ok \in BOOLEAN :
          /\ output' = IF ok
                       THEN [exists |-> TRUE, bytes |-> ArWrite(extracted, tmpdir.files)]
                       ELSE output
          /\ produced' = ok
          /\ exit_status' = IF ok THEN 0 ELSE 1
          /\ tmpdir' = TemporaryDirectoryExit(tmpdir, ~ok)
    /\ ar_called' = TRUE
    /\ pc' = "exited"
    /\ UNCHANGED <<entries, damage, file, out0, run, parsed, members, names,
                   actual_dups, skip_indices, extracted, idx>>

\* the tool is invoked again, on the output of a first run that produced it
Rerun ==
    /\ pc = "exited"
    /\ run = 1
    /\ exit_status = 0
    /\ produced
    /\ file' = output.bytes
    /\ out0' = Absent
    /\ output' = Absent
    /\ run' = 2
    /\ pc' = "start"
    /\ parsed' = NoParse
    /\ members' = <<>>
    /\ names' = <<>>
    /\ actual_dups' = {}
    /\ skip_indices' = {}
    /\ tmpdir' = NoTmpdir
    /\ extracted' = <<>>
    /\ idx' = 0
    /\ produced' = FALSE
    /\ ar_called' = FALSE
    /\ UNCHANGED <<entries, damage, exit_status>>

Next ==
    \/ Parse
    \/ CountDups
    \/ PassthroughCopy
    \/ MarkFirst
    \/ EnterTmpdir
    \/ StageMember
    \/ RemoveOutput
    \/ Rebuild
    \/ Rerun

Spec == Init /\ [][Next]_vars

SpecReader == InitReader /\ [][Next]_vars

-----------------------------------------------------------------------------
(* Properties *)

\* the positions of main at which names and actual_dups have been computed and,
\* on the rebuild path, skip_indices too
Decided == pc \in {"copy", "mktemp", "stage", "rebuild", "exited"} /\ parsed.status = "eof"

\* the 0-based indices i holding a candidate name that occurs again after i and
\* never before i
FirstOfDuplicated(ns) ==
    {i \in 0..(Len(ns) - 1) :
        /\ ns[i + 1] \in duplicate_candidates
        /\ \E j \in (i + 1)..(Len(ns) - 1) : ns[j + 1] = ns[i + 1]
        /\ \A j \in 0..(i - 1) : ns[j + 1] # ns[i + 1]}

\* C1: the DropSet is exactly the set of first occurrences of the candidate names
\* that occur more than once; later occurrences (also the third and beyond), names
\* outside the candidate set and candidate names occurring once are never in it
C1_DropSetIsFirstOccurrences == Decided => skip_indices = FirstOfDuplicated(names)

\* C1 witness: the marking loop has run on a list holding a candidate name three
\* times and a non-candidate name
C1_Witness ==
    /\ pc = "mktemp"
    /\ \E n \in actual_dups : Count(n, names) >= 3
    /\ \E k \in 1..Len(names) : names[k] \notin duplicate_candidates

\* the number of surviving indices below i, plus one: the place of member i among
\* the staged files
Rank(i) == Cardinality({j \in 0..(i - 1) : j \notin skip_indices}) + 1

\* C2: when ar is about to be called, the staged files are the members outside the
\* DropSet, each with its own data, in ascending original index, and there are
\* Len(members) - |DropSet| of them
C2_StagedInInputOrder ==
    pc = "rebuild" =>
        /\ Len(extracted) = Len(members) - Cardinality(skip_indices)
        /\ \A i \in 0..(Len(members) - 1) :
              i \notin skip_indices =>
                 /\ Rank(i) \in 1..Len(extracted)
                 /\ extracted[Rank(i)] = Fmt05d(i) \o <<"_">> \o members[i + 1].name
                 /\ extracted[Rank(i)] \in DOMAIN tmpdir.files
                 /\ tmpdir.files[extracted[Rank(i)]] = members[i + 1].data

\* C2 witness: staging is over, an index was dropped and two members of the same
\* name survive
C2_Witness ==
    /\ pc = "rebuild"
    /\ skip_indices # {}
    /\ \E i, j \in 1..Len(members) :
          i < j /\ members[i].name = members[j].name
              /\ (i - 1) \notin skip_indices /\ (j - 1) \notin skip_indices

\* C3: with an empty DropSet the run stages nothing, never calls ar, and ends with
\* the output file holding the bytes of the input file
C3_PassthroughCopiesInput ==
    (run = 1 /\ pc = "exited" /\ parsed.status = "eof" /\ actual_dups = {}) =>
        /\ extracted = <<>>
        /\ ~ar_called
        /\ output.exists
        /\ output.bytes = file

\* C4: a second run, on the output of a first run, parses it, finds every
\* candidate name at most once, drops no index and takes the passthrough path, so
\* the output it produces holds the member list it read
C4_SecondRunDropsNothing ==
    run = 2 =>
        /\ pc \in {"start", "parsed", "copy", "exited"}
        /\ pc # "start" => parsed.status = "eof"
        /\ pc \in {"copy", "exited"} =>
              /\ \A n \in duplicate_candidates : Count(n, names) <= 1
              /\ FirstOfDuplicated(names) = {}
        /\ actual_dups = {} /\ skip_indices = {} /\ ~ar_called
        /\ (pc = "exited" /\ produced) =>
              /\ ParseAr(output.bytes).status = "eof"
              /\ ParseAr(output.bytes).members = members

\* C4 witness: the second run has ended on the output of a first run that dropped
\* the first of three copies of ggml.c.o
C4_Witness ==
    /\ run = 2
    /\ pc = "exited"
    /\ produced
    /\ Len(entries) >= 3
    /\ \A k \in 1..3 : entries[k].name = ggml_c_o
    /\ Len(members) = Len(entries) - 1

\* C5: a failing ar ends the run with a non-zero status, and a destination that
\* existed before the run is as it was until ar has reported success
C5_DestinationKeptUntilRebuilt ==
    /\ (ar_called /\ ~produced) => (pc = "exited" /\ exit_status # 0)
    /\ (run = 1 /\ out0.exists /\ actual_dups # {} /\ ~(ar_called /\ produced)) =>
          output = out0

\* C6: a wrong magic and a header read that returns 1 to 59 bytes both end the
\* run at line 59 with a non-zero status, the output path untouched, nothing
\* copied, staged or rebuilt
C6_ParsingFailureIsFatal ==
    (run = 1 /\ pc # "start" /\ (parsed.err = "AssertionError" \/ parsed.tail > 0)) =>
        /\ pc = "exited"
        /\ exit_status # 0
        /\ output = out0
        /\ ~produced
        /\ ~ar_called
        /\ ~tmpdir.exists

\* C7: staged files exist only inside the temporary directory, between its
\* creation and the end of its block, and when the process has exited (after a
\* successful ar, a failed ar or a failed write) the directory and its files are gone
C7_TmpdirRemovedOnEveryExit ==
    /\ DOMAIN tmpdir.files # {} => (tmpdir.exists /\ pc \in {"stage", "rebuild"})
    /\ tmpdir.exists => pc \in {"stage", "rebuild"}
    /\ pc \in {"stage", "rebuild"} =>
          DOMAIN tmpdir.files = {extracted[k] : k \in 1..Len(extracted)}
    /\ pc = "exited" => (~tmpdir.exists /\ DOMAIN tmpdir.files = {})

\* C7 witness: the run ended by a failing ar after files had been staged
C7_Witness ==
    /\ pc = "exited"
    /\ exit_status = 1
    /\ ar_called
    /\ Len(extracted) >= 2

\* C8: the process exits with status 0 only if the copy or the rebuild succeeded
C8_ZeroStatusMeansOutputProduced ==
    (pc = "exited" /\ exit_status = 0) =>
        (produced /\ output.exists /\ (actual_dups = {} => output.bytes = file))

\* the members the Reader is to yield for an archive built from es: the ones not
\* skipped, each with its name and content, whatever its encoding
RECURSIVE Logical(_)
Logical(es) ==
    IF es = <<>> THEN <<>>
    ELSE LET e == es[Len(es)]
             rest == Logical(SubSeq(es, 1, Len(es) - 1))
         IN  IF IsSpecial(e.name) THEN rest
             ELSE Append(rest, [name |-> DecodeReplace(e.name), data |-> e.content])

LogicalNames(es) == [k \in 1..Len(Logical(es)) |-> Logical(es)[k].name]

\* C9: the Reader yields every member of an undamaged archive with its logical
\* name and its content whether the name is stored in the short or in the
\* extended form, so the DropSet is that of the logical names
C9_EncodingIndependent ==
    (run = 1 /\ damage = "none" /\ pc # "start") =>
        /\ parsed.status = "eof"
        /\ members = Logical(entries)
        /\ Decided => skip_indices = FirstOfDuplicated(LogicalNames(entries))

\* the same for the archives whose names are all ASCII
ReaderInvertsAsciiEncoding ==
    (run = 1 /\ damage = "none" /\ pc # "start"
       /\ \A k \in 1..Len(entries) : AsciiOk(entries[k].name)) =>
        /\ parsed.status = "eof"
        /\ parsed.tail = 0
        /\ members = Logical(entries)
        /\ Decided => skip_indices = FirstOfDuplicated(LogicalNames(entries))

\* C10: for every header processed, f.read(size) returned size bytes, and a
\* yielded member has size bytes of content, less the name length for an
\* extended name
C10_ExactlySizeBytesRead ==
    \A k \in 1..Len(parsed.hdrs) :
        /\ parsed.hdrs[k].got = parsed.hdrs[k].size
        /\ parsed.hdrs[k].yielded =>
              parsed.hdrs[k].content = parsed.hdrs[k].size - parsed.hdrs[k].name_len

\* the same for the inputs that do not end inside a payload
ExactlySizeBytesReadUnlessCut == damage # "payload" => C10_ExactlySizeBytesRead

====
